---- MODULE Spec2Model ----
(***************************************************************************)
(* Authentication service of the plusgrade server: loginUserService,       *)
(* registerUserService and refreshTokenService over the users table, the   *)
(* bcrypt password hasher and the jsonwebtoken signer.                     *)
(*                                                                         *)
(* Every service call is an async function.  A call is modelled as a       *)
(* process that takes one step per awaited store statement: the step is    *)
(* the statement executing in the store followed by the synchronous        *)
(* continuation of the function up to its next statement or its return.    *)
(* A settled call keeps its response until the caller drops it; the tokens *)
(* of the responses still around are the ones that can be presented to     *)
(* refreshTokenService, next to tampered and forged ones.                  *)
(*                                                                         *)
(* Spec runs the three services together.  SpecRegister and SpecLogin run  *)
(* one service alone, for the properties that are about that service.      *)
(***************************************************************************)
EXTENDS Integers, Sequences, FiniteSets, TLC

\* ------------------------------------------------------------------ bounds
MaxInFlight == 2
MaxTime == 2

\* the requests that can be in flight at the same time
Calls == 1..MaxInFlight

Emails == {"a@x.com", "b@x.com"}
Passwords == {"pw123456", "wrong"}
NewPasswords == {"pw123456"}
InputRoles == {"undefined", "admin"}
FirstNames == {"A"}
LastNames == {"B"}
BirthDates == {"2000-01-01"}
PhotoUrls == {"undefined"}

\* ------------------------------------------------------------ configuration
JWT_EXPIRES_IN_SHORT == 1
JWT_EXPIRES_IN_LONG == 2

\* (empty string: the environment variable is not defined)
AccessSecrets == {"", "access-secret"}
RefreshSecrets == {"", "refresh-secret"}

VARIABLES
    users,                \* the users table: sequence of rows, id = position
    now,                  \* wall clock, in token-lifetime units
    dbUp,                 \* TRUE when pool.query reaches the store
    JWT_SECRET_ACCESS,    \* signing secret of access tokens ("" = undefined)
    JWT_SECRET_REFRESH,   \* signing secret of refresh tokens ("" = undefined)
    pc,                   \* per call: the await it is suspended at
    arg,                  \* per call: the arguments it was invoked with
    rows,                 \* per call: result.rows of loginUserService's SELECT
    result,               \* per call: the settled promise, until the caller drops it
    registered            \* per email: registrations answered with a token pair

vars == <<users, now, dbUp, JWT_SECRET_ACCESS, JWT_SECRET_REFRESH,
          pc, arg, rows, result, registered>>

\* ------------------------------------------------------------------ store
\* last_login of a row that never logged in (SQL NULL)
NeverLoggedIn == 0 - 1

\* column default of users.role
DefaultRole == "user"

\* `x || null` of the INSERT parameters
OrNull(x) == IF x = "undefined" THEN "" ELSE x

\* bcrypt.hash(password, 10): salted one-way hash
Hash(password) == <<"$2b$10$", password>>

\* bcrypt.compare(password, hash)
Compare(password, hash) == hash = Hash(password)

\* SELECT * FROM users WHERE email = $1
SelectByEmail(email) == SelectSeq(users, LAMBDA u : u.email = email)

\* SELECT * FROM users WHERE id = $1
SelectById(id) == SelectSeq(users, LAMBDA u : u.id = id)

\* unique constraint on users.email
UniqueEmail(table) ==
    \A i, j \in 1..Len(table) : table[i].email = table[j].email => i = j

NewRow(table, in, hashedPassword) ==
    [id |-> Len(table) + 1,
     email |-> in.email,
     password |-> hashedPassword,
     first_name |-> in.first_name,
     last_name |-> in.last_name,
     date_of_birth |-> OrNull(in.date_of_birth),
     photo_url |-> OrNull(in.photo_url),
     role |-> DefaultRole,
     last_login |-> NeverLoggedIn]

\* INSERT ... ON CONFLICT (email) DO UPDATE ... RETURNING id
RegisterInsertStmt_upsert(table, in, hashedPassword) ==
    LET hit == SelectSeq(table, LAMBDA u : u.email = in.email)
    IN  IF Len(hit) > 0
        THEN [ok |-> TRUE, table |-> table, rows |-> <<[id |-> hit[1].id]>>]
        ELSE [ok |-> TRUE,
              table |-> Append(table, NewRow(table, in, hashedPassword)),
              rows |-> <<[id |-> Len(table) + 1]>>]

\* INSERT INTO users (email, password, first_name, last_name, date_of_birth,
\* photo_url) VALUES (...) RETURNING id
RegisterInsertStmt(table, in, hashedPassword) ==
    LET next == Append(table, NewRow(table, in, hashedPassword))
    IN  IF UniqueEmail(next)
        THEN [ok |-> TRUE, table |-> next, rows |-> <<[id |-> Len(next)]>>]
        ELSE [ok |-> FALSE, table |-> table, rows |-> <<>>]

\* UPDATE users SET last_login = NOW() WHERE id = $1
UpdateLastLogin(table, id) ==
    [i \in 1..Len(table) |->
        IF table[i].id = id THEN [table[i] EXCEPT !.last_login = now]
        ELSE table[i]]

\* ----------------------------------------------------------------- errors
AppError(message, statusCode) ==
    [name |-> "AppError", message |-> message, statusCode |-> statusCode]

PlainError(name, message) == [name |-> name, message |-> message]

DatabaseError == PlainError("DatabaseError", "store failure")

\* error instanceof AppError
InstanceOfAppError(err) == err.name = "AppError"

isAppError(err) ==
    \/ InstanceOfAppError(err)
    \/ {"message", "statusCode"} \subseteq DOMAIN err

Catch_rethrow(error, message) == error

\* the catch block of the three services
Catch(error, message) ==
    IF ~InstanceOfAppError(error) THEN AppError(message, 500) ELSE error

Rejected(err) == [state |-> "rejected", error |-> err]
Resolved(value) == [state |-> "resolved", value |-> value]
Pending == [state |-> "pending"]

\* a function body either throws or returns
Throw(err) == [thrown |-> TRUE, error |-> err]
Return(value) == [thrown |-> FALSE, value |-> value]

\* try { body } catch (error) { ... }: the promise the caller gets
Settle(completion, message) ==
    IF completion.thrown
    THEN Rejected(Catch(completion.error, message))
    ELSE Resolved(completion.value)

\* ----------------------------------------------------------------- tokens
\* signature of a token: binds the claims to the signing secret
SigOf(payload, iat, exp, secret) == <<secret, payload, iat, exp>>

\* jwt.sign(payload, secret, { expiresIn }) with a defined secret
Sign(payload, secret, expiresIn) ==
    [payload |-> payload,
     iat |-> now,
     exp |-> now + expiresIn,
     sig |-> SigOf(payload, now, now + expiresIn, secret)]

\* jwt.sign throws when the secret is undefined
SignError == PlainError("Error", "secretOrPrivateKey must have a value")

\* jwt.verify(token, secret)
Verify(token, secret) ==
    IF secret = ""
    THEN Throw(PlainError("JsonWebTokenError",
                          "secret or public key must be provided"))
    ELSE IF token.sig # SigOf(token.payload, token.iat, token.exp, secret)
    THEN Throw(PlainError("JsonWebTokenError", "invalid signature"))
    ELSE IF now >= token.exp
    THEN Throw(PlainError("TokenExpiredError", "jwt expired"))
    ELSE Return(token.payload)

\* `user.role || "user"`
RoleOrUser(role) == IF role = "" THEN "user" ELSE role

\* ------------------------------------------------------ loginUserService
LoginFailedError_split(found, password) ==
    IF Len(found) = 0 THEN AppError("User not found", 404)
    ELSE AppError("Invalid password", 401)

\* throw new AppError("Login Failed", 404)
LoginFailedError(found, password) == AppError("Login Failed", 404)

\* !user || !(await bcrypt.compare(password, user.password))
LoginRefused(found, password) ==
    \/ Len(found) = 0
    \/ ~Compare(password, found[1].password)

LoginPayload(user) ==
    [userId |-> user.id, email |-> user.email, role |-> RoleOrUser(user.role)]

LoginPublicUser(user) ==
    [id |-> user.id,
     email |-> user.email,
     first_name |-> user.first_name,
     last_name |-> user.last_name,
     date_of_birth |-> user.date_of_birth,
     photo_url |-> user.photo_url,
     role |-> RoleOrUser(user.role)]

\* the function after the UPDATE: payload, secret check, signing, return
LoginIssue(user) ==
    IF JWT_SECRET_ACCESS = ""
    THEN Throw(PlainError("Error", "JWT_SECRET_ACCESS is not defined"))
    ELSE IF JWT_SECRET_REFRESH = ""
    THEN Throw(SignError)
    ELSE Return([accessToken |-> Sign(LoginPayload(user), JWT_SECRET_ACCESS,
                                      JWT_EXPIRES_IN_SHORT),
                 refreshToken |-> Sign(LoginPayload(user), JWT_SECRET_REFRESH,
                                       JWT_EXPIRES_IN_LONG),
                 user |-> LoginPublicUser(user)])

\* --------------------------------------------------- registerUserService
RegisterConflict_many(existing) == Len(existing) > 1

\* existing.rows.length > 0
RegisterConflict(existing) == Len(existing) > 0

RegisterPayload(user, in) ==
    [userId |-> user.id, email |-> in.email, role |-> in.role]

RegisterPublicUser(user, in) ==
    [id |-> user.id,
     email |-> in.email,
     first_name |-> in.first_name,
     last_name |-> in.last_name,
     date_of_birth |-> in.date_of_birth,
     photo_url |-> in.photo_url]

\* the function after the INSERT: payload, signing, return
RegisterIssue(user, in) ==
    IF JWT_SECRET_ACCESS = "" \/ JWT_SECRET_REFRESH = ""
    THEN Throw(SignError)
    ELSE Return([accessToken |-> Sign(RegisterPayload(user, in),
                                      JWT_SECRET_ACCESS, JWT_EXPIRES_IN_SHORT),
                 refreshToken |-> Sign(RegisterPayload(user, in),
                                       JWT_SECRET_REFRESH, JWT_EXPIRES_IN_LONG),
                 user |-> RegisterPublicUser(user, in)])

\* --------------------------------------------------- refreshTokenService
RefreshVerify_accessSecret(refreshToken) == Verify(refreshToken, JWT_SECRET_ACCESS)

\* jwt.verify(refreshToken, JWT_SECRET_REFRESH)
RefreshVerify(refreshToken) == Verify(refreshToken, JWT_SECRET_REFRESH)

RefreshPayload_fromToken(user, payload) ==
    [userId |-> user.id, email |-> user.email, role |-> payload.role]

RefreshPayload(user, payload) ==
    [userId |-> user.id, email |-> user.email, role |-> RoleOrUser(user.role)]

\* the function after the SELECT: user check, payload, signing, return
RefreshIssue(found, payload) ==
    IF Len(found) = 0
    THEN Throw(AppError("Login Failed", 404))
    ELSE IF JWT_SECRET_ACCESS = "" \/ JWT_SECRET_REFRESH = ""
    THEN Throw(SignError)
    ELSE Return([accessToken |-> Sign(RefreshPayload(found[1], payload),
                                      JWT_SECRET_ACCESS, JWT_EXPIRES_IN_LONG),
                 refreshToken |-> Sign(RefreshPayload(found[1], payload),
                                       JWT_SECRET_REFRESH,
                                       JWT_EXPIRES_IN_SHORT),
                 user |-> LoginPublicUser(found[1])])

\* ------------------------------------------------ what callers can present
IsResolved(c) == result[c].state = "resolved"
IsRejected(c) == result[c].state = "rejected"

TokenPair(value) ==
    [accessToken |-> value.accessToken, refreshToken |-> value.refreshToken]

\* the token pairs of the responses the callers still hold
Issued == {TokenPair(result[c].value) : c \in {d \in Calls : IsResolved(d)}}

\* a token whose expiry was edited after signing
Tampered(t) == [t EXCEPT !.exp = MaxTime + JWT_EXPIRES_IN_LONG + 1]

\* a token signed by somebody who does not hold the secrets
Forged ==
    LET p == [userId |-> 1, email |-> "a@x.com", role |-> "admin"]
    IN  [payload |-> p, iat |-> 0, exp |-> MaxTime + 1,
         sig |-> SigOf(p, 0, MaxTime + 1, "guessed-secret")]

\* the refresh tokens of the refresh requests whose caller is still around
Presented ==
    {arg[c].refreshToken : c \in {d \in Calls : arg[d].op = "refresh"}}

Presentable ==
    {p.refreshToken : p \in Issued} \cup {p.accessToken : p \in Issued}
        \cup {Tampered(p.refreshToken) : p \in Issued} \cup {Forged}
        \cup Presented

RegisterInputs ==
    [email : Emails, password : NewPasswords, first_name : FirstNames,
     last_name : LastNames, date_of_birth : BirthDates,
     photo_url : PhotoUrls, role : InputRoles]

\* ------------------------------------------------------------------- Init
SeedRoles == {"", "admin"}

SeedRow(role) ==
    [id |-> 1, email |-> "a@x.com", password |-> Hash("pw123456"),
     first_name |-> "A", last_name |-> "B", date_of_birth |-> "",
     photo_url |-> "", role |-> role, last_login |-> NeverLoggedIn]

Init ==
    /\ users \in {<<SeedRow(r)>> : r \in SeedRoles}
    /\ now = 0
    /\ dbUp = TRUE
    /\ JWT_SECRET_ACCESS \in AccessSecrets
    /\ JWT_SECRET_REFRESH \in RefreshSecrets
    /\ pc = [c \in Calls |-> "idle"]
    /\ arg = [c \in Calls |-> [op |-> "none"]]
    /\ rows = [c \in Calls |-> <<>>]
    /\ result = [c \in Calls |-> Pending]
    /\ registered = [e \in Emails |-> 0]

config == <<JWT_SECRET_ACCESS, JWT_SECRET_REFRESH>>

\* a request takes the first free slot
NextToArrive(c) == pc[c] = "idle" /\ \A d \in Calls : d < c => pc[d] # "idle"

\* ---------------------------------------------------------------- actions
\* loginUserService(email, password) is invoked and issues its SELECT
LoginCall(c) ==
    /\ NextToArrive(c)
    /\ \E email \in Emails, password \in Passwords :
          arg' = [arg EXCEPT ![c] = [op |-> "login", email |-> email,
                                     password |-> password]]
    /\ pc' = [pc EXCEPT ![c] = "login_select"]
    /\ UNCHANGED <<users, now, dbUp, config, rows, result, registered>>

\* the SELECT settles; credentials are checked; the UPDATE is issued
LoginSelect(c) ==
    /\ pc[c] = "login_select"
    /\ IF ~dbUp
       THEN /\ result' = [result EXCEPT ![c] =
                  Settle(Throw(DatabaseError), "Failed to log in user")]
            /\ pc' = [pc EXCEPT ![c] = "done"]
            /\ UNCHANGED rows
       ELSE LET found == SelectByEmail(arg[c].email)
            IN  IF LoginRefused(found, arg[c].password)
                THEN /\ result' = [result EXCEPT ![c] =
                           Settle(Throw(LoginFailedError(found, arg[c].password)),
                                  "Failed to log in user")]
                     /\ pc' = [pc EXCEPT ![c] = "done"]
                     /\ UNCHANGED rows
                ELSE /\ rows' = [rows EXCEPT ![c] = found]
                     /\ pc' = [pc EXCEPT ![c] = "login_update"]
                     /\ UNCHANGED result
    /\ UNCHANGED <<users, now, dbUp, config, arg, registered>>

\* the UPDATE settles; the token pair is signed and returned
LoginUpdate(c) ==
    /\ pc[c] = "login_update"
    /\ IF ~dbUp
       THEN /\ result' = [result EXCEPT ![c] =
                  Settle(Throw(DatabaseError), "Failed to log in user")]
            /\ UNCHANGED users
       ELSE /\ users' = UpdateLastLogin(users, rows[c][1].id)
            /\ result' = [result EXCEPT ![c] =
                  Settle(LoginIssue(rows[c][1]), "Failed to log in user")]
    /\ pc' = [pc EXCEPT ![c] = "done"]
    /\ UNCHANGED <<now, dbUp, config, arg, rows, registered>>

\* registerUserService(input) is invoked and issues its SELECT
RegisterCall(c) ==
    /\ NextToArrive(c)
    /\ \E in \in RegisterInputs :
          arg' = [arg EXCEPT ![c] = [op |-> "register", in |-> in]]
    /\ pc' = [pc EXCEPT ![c] = "register_select"]
    /\ UNCHANGED <<users, now, dbUp, config, rows, result, registered>>

\* the existence check settles; the password is hashed; the INSERT is issued
RegisterSelect(c) ==
    /\ pc[c] = "register_select"
    /\ IF ~dbUp
       THEN /\ result' = [result EXCEPT ![c] =
                  Settle(Throw(DatabaseError), "Failed to register user")]
            /\ pc' = [pc EXCEPT ![c] = "done"]
       ELSE IF RegisterConflict(SelectByEmail(arg[c].in.email))
       THEN /\ result' = [result EXCEPT ![c] =
                  Settle(Throw(AppError("Email already registered", 409)),
                         "Failed to register user")]
            /\ pc' = [pc EXCEPT ![c] = "done"]
       ELSE /\ pc' = [pc EXCEPT ![c] = "register_insert"]
            /\ UNCHANGED result
    /\ UNCHANGED <<users, now, dbUp, config, arg, rows, registered>>

\* the INSERT settles; the token pair is signed and returned
RegisterInsert(c) ==
    /\ pc[c] = "register_insert"
    /\ IF ~dbUp
       THEN /\ result' = [result EXCEPT ![c] =
                  Settle(Throw(DatabaseError), "Failed to register user")]
            /\ UNCHANGED users
       ELSE LET ins == RegisterInsertStmt(users, arg[c].in,
                                          Hash(arg[c].in.password))
            IN  /\ users' = ins.table
                /\ result' = [result EXCEPT ![c] =
                      Settle(IF ins.ok
                             THEN RegisterIssue(ins.rows[1], arg[c].in)
                             ELSE Throw(DatabaseError),
                             "Failed to register user")]
    /\ registered' =
          IF result'[c].state = "resolved"
          THEN [registered EXCEPT ![arg[c].in.email] = @ + 1]
          ELSE registered
    /\ pc' = [pc EXCEPT ![c] = "done"]
    /\ UNCHANGED <<now, dbUp, config, arg, rows>>

\* refreshTokenService(refreshToken) is invoked: the token is verified and,
\* when it is accepted, the SELECT is issued
RefreshCall(c) ==
    /\ NextToArrive(c)
    /\ \E t \in Presentable :
          /\ arg' = [arg EXCEPT ![c] = [op |-> "refresh", refreshToken |-> t]]
          /\ IF RefreshVerify(t).thrown
             THEN /\ result' = [result EXCEPT ![c] =
                        Settle(RefreshVerify(t), "Failed to refresh token")]
                  /\ pc' = [pc EXCEPT ![c] = "done"]
             ELSE /\ pc' = [pc EXCEPT ![c] = "refresh_select"]
                  /\ UNCHANGED result
    /\ UNCHANGED <<users, now, dbUp, config, rows, registered>>

\* the SELECT settles; the new pair is signed and returned
RefreshSelect(c) ==
    /\ pc[c] = "refresh_select"
    /\ result' = [result EXCEPT ![c] =
          Settle(IF ~dbUp THEN Throw(DatabaseError)
                 ELSE RefreshIssue(SelectById(arg[c].refreshToken.payload.userId),
                                   arg[c].refreshToken.payload),
                 "Failed to refresh token")]
    /\ pc' = [pc EXCEPT ![c] = "done"]
    /\ UNCHANGED <<users, now, dbUp, config, arg, rows, registered>>

\* the caller drops the response it got, tokens included
Respond(c) ==
    /\ pc[c] = "done"
    /\ pc' = [pc EXCEPT ![c] = "idle"]
    /\ arg' = [arg EXCEPT ![c] = [op |-> "none"]]
    /\ rows' = [rows EXCEPT ![c] = <<>>]
    /\ result' = [result EXCEPT ![c] = Pending]
    /\ UNCHANGED <<users, now, dbUp, config, registered>>

\* time passes
Tick ==
    /\ now < MaxTime
    /\ now' = now + 1
    /\ UNCHANGED <<users, dbUp, config, pc, arg, rows, result, registered>>

\* the store becomes unreachable, or reachable again
StoreFlip ==
    /\ dbUp' = ~dbUp
    /\ UNCHANGED <<users, now, config, pc, arg, rows, result, registered>>

Next ==
    \/ \E c \in Calls : LoginCall(c)
    \/ \E c \in Calls : LoginSelect(c)
    \/ \E c \in Calls : LoginUpdate(c)
    \/ \E c \in Calls : RegisterCall(c)
    \/ \E c \in Calls : RegisterSelect(c)
    \/ \E c \in Calls : RegisterInsert(c)
    \/ \E c \in Calls : RefreshCall(c)
    \/ \E c \in Calls : RefreshSelect(c)
    \/ \E c \in Calls : Respond(c)
    \/ Tick
    \/ StoreFlip

Spec == Init /\ [][Next]_vars

\* registerUserService alone: any number of registrations, up to MaxInFlight
\* of them at the same time
NextRegister ==
    \/ \E c \in Calls : RegisterCall(c)
    \/ \E c \in Calls : RegisterSelect(c)
    \/ \E c \in Calls : RegisterInsert(c)
    \/ \E c \in Calls : Respond(c)
    \/ Tick
    \/ StoreFlip

SpecRegister == Init /\ [][NextRegister]_vars

\* loginUserService alone
NextLogin ==
    \/ \E c \in Calls : LoginCall(c)
    \/ \E c \in Calls : LoginSelect(c)
    \/ \E c \in Calls : LoginUpdate(c)
    \/ \E c \in Calls : Respond(c)
    \/ Tick
    \/ StoreFlip

SpecLogin == Init /\ [][NextLogin]_vars

\* ================================================================ claims
\* the step in which call c leaves the await named at
Leaves(c, at) == pc[c] = at /\ pc'[c] # at

RowsWithEmail(table, email) == {i \in 1..Len(table) : table[i].email = email}

ValidRefreshSignature(t) ==
    /\ JWT_SECRET_REFRESH # ""
    /\ t.sig = <<JWT_SECRET_REFRESH, t.payload, t.iat, t.exp>>

\* C1: a registerUserService call whose existence check finds a row with its
\* email is rejected with the Conflict error (AppError, 409), gets no tokens
\* and inserts nothing: rows are never removed, and the store still holds
\* exactly one row for that email afterwards.
C1_DuplicateEmailConflict ==
    [][/\ \A i \in 1..Len(users) :
             i <= Len(users') /\ users'[i].email = users[i].email
       /\ \A c \in Calls :
             (/\ Leaves(c, "register_select")
              /\ dbUp
              /\ RowsWithEmail(users, arg[c].in.email) # {})
             => /\ result'[c].state = "rejected"
                /\ result'[c].error.name = "AppError"
                /\ result'[c].error.statusCode = 409
                /\ users' = users
                /\ registered' = registered
                /\ Cardinality(RowsWithEmail(users', arg[c].in.email)) = 1]_vars

\* the same email registered twice in sequence: first answered with tokens,
\* then refused with 409, one row stored
C1_Witness ==
    \E c \in Calls :
        /\ pc[c] = "done"
        /\ arg[c].op = "register"
        /\ IsRejected(c)
        /\ result[c].error.statusCode = 409
        /\ registered[arg[c].in.email] = 1
        /\ Cardinality(RowsWithEmail(users, arg[c].in.email)) = 1

\* C2: loginUserService answers an unknown email and a wrong password for a
\* known email with one and the same rejection (AppError "Login Failed", 404),
\* which carries no token, and leaves the store alone.
C2_LoginFailureIndistinguishable ==
    [][\A c \in Calls :
          (/\ Leaves(c, "login_select")
           /\ dbUp
           /\ \/ RowsWithEmail(users, arg[c].email) = {}
              \/ \E i \in RowsWithEmail(users, arg[c].email) :
                    users[i].password # Hash(arg[c].password))
          => /\ result'[c] =
                   [state |-> "rejected",
                    error |-> [name |-> "AppError", message |-> "Login Failed",
                               statusCode |-> 404]]
             /\ users' = users]_vars

\* one login refused for an unknown email and one refused for a wrong
\* password, side by side, with equal responses
C2_Witness ==
    \E c, d \in Calls :
        /\ arg[c].op = "login" /\ arg[d].op = "login"
        /\ IsRejected(c) /\ IsRejected(d)
        /\ result[c].error.statusCode = 404
        /\ RowsWithEmail(users, arg[c].email) = {}
        /\ \E i \in RowsWithEmail(users, arg[d].email) :
              users[i].password # Hash(arg[d].password)
        /\ result[c] = result[d]

\* C3 (as claimed): refreshTokenService rejects a refresh token with an
\* invalid signature or a passed expiry with an Unauthorized (401) error,
\* without tokens and without touching the store.
C3_InvalidRefreshTokenUnauthorized ==
    [][\A c \in Calls :
          (/\ pc[c] = "idle" /\ pc'[c] # "idle"
           /\ arg'[c].op = "refresh"
           /\ \/ ~ValidRefreshSignature(arg'[c].refreshToken)
              \/ now >= arg'[c].refreshToken.exp)
          => /\ result'[c].state = "rejected"
             /\ result'[c].error.statusCode = 401
             /\ users' = users]_vars

\* the errors each service hands to its caller
ClassifiedErrors(op) ==
    IF op = "login"
    THEN {[name |-> "AppError", message |-> "Login Failed", statusCode |-> 404],
          [name |-> "AppError", message |-> "Failed to log in user",
           statusCode |-> 500]}
    ELSE IF op = "register"
    THEN {[name |-> "AppError", message |-> "Email already registered",
           statusCode |-> 409],
          [name |-> "AppError", message |-> "Failed to register user",
           statusCode |-> 500]}
    ELSE {[name |-> "AppError", message |-> "Login Failed", statusCode |-> 404],
          [name |-> "AppError", message |-> "Failed to refresh token",
           statusCode |-> 500]}

\* C4: every error that leaves login, register or refresh is a classified
\* error: either one the service threw itself, status and message intact, or
\* the generic 500 error of that service; nothing else reaches the caller.
C4_OnlyClassifiedErrorsLeave ==
    \A c \in Calls :
        IsRejected(c) =>
            /\ isAppError(result[c].error)
            /\ result[c].error \in ClassifiedErrors(arg[c].op)

\* an unexpected failure wrapped into 500 next to a classified error passed on
C4_Witness ==
    \E c, d \in Calls :
        /\ IsRejected(c) /\ IsRejected(d)
        /\ result[c].error.statusCode = 500
        /\ result[d].error.statusCode \in {404, 409}

\* C5 (as claimed): every issued pair has an access token with the short
\* expiry and a refresh token with the long expiry.
C5_AccessShortRefreshLong ==
    \A c \in Calls :
        IsResolved(c) =>
            /\ result[c].value.accessToken.exp - result[c].value.accessToken.iat
                  = JWT_EXPIRES_IN_SHORT
            /\ result[c].value.refreshToken.exp - result[c].value.refreshToken.iat
                  = JWT_EXPIRES_IN_LONG

\* C6 (as claimed): after a successful registration the role in both token
\* payloads is the role stored for the new user, and it is "user" when the
\* input omits role.
C6_RegisterTokenRoleIsStoredRole ==
    \A c \in Calls :
        (IsResolved(c) /\ arg[c].op = "register") =>
            \E i \in 1..Len(users) :
                /\ users[i].id = result[c].value.user.id
                /\ result[c].value.accessToken.payload.role = users[i].role
                /\ result[c].value.refreshToken.payload.role = users[i].role
                /\ arg[c].in.role = "undefined" =>
                      result[c].value.accessToken.payload.role = "user"

\* C7: a successful login, and a successful refresh, return two tokens whose
\* payload is {userId, email, role} of the stored row of the user (role
\* "user" when the stored role is empty) and a projection of that row
\* without the password.
C7_TokensCarryStoredUser ==
    \A c \in Calls :
        (IsResolved(c) /\ arg[c].op \in {"login", "refresh"}) =>
            \E i \in 1..Len(users) :
                LET u == users[i]
                    v == result[c].value
                    claims == [userId |-> u.id, email |-> u.email,
                               role |-> IF u.role = "" THEN "user" ELSE u.role]
                IN  /\ arg[c].op = "login" =>
                          u.email = arg[c].email /\ u.password = Hash(arg[c].password)
                    /\ arg[c].op = "refresh" =>
                          u.id = arg[c].refreshToken.payload.userId
                    /\ v.accessToken.payload = claims
                    /\ v.refreshToken.payload = claims
                    /\ "password" \notin DOMAIN v.user
                    /\ v.user = [id |-> u.id, email |-> u.email,
                                 first_name |-> u.first_name,
                                 last_name |-> u.last_name,
                                 date_of_birth |-> u.date_of_birth,
                                 photo_url |-> u.photo_url,
                                 role |-> claims.role]

\* a login of a user stored with an empty role and a refresh, both answered
C7_Witness ==
    \E c, d \in Calls :
        /\ IsResolved(c) /\ arg[c].op = "login"
        /\ IsResolved(d) /\ arg[d].op = "refresh"
        /\ \E i \in 1..Len(users) :
              users[i].email = arg[c].email /\ users[i].role = ""

\* C8: whatever the interleaving of registrations, the store holds at most
\* one row per email and at most one registration per email is answered
\* with a token pair.
C8_OneRowOneAnswerPerEmail ==
    \A e \in Emails :
        /\ Cardinality(RowsWithEmail(users, e)) <= 1
        /\ registered[e] <= 1

\* two registrations of one email both passed the existence check; one has
\* inserted and was answered, the other is about to insert
C8_Witness ==
    \E c, d \in Calls :
        /\ arg[c].op = "register" /\ arg[d].op = "register"
        /\ arg[c].in.email = arg[d].in.email
        /\ IsResolved(c)
        /\ pc[d] = "register_insert"

\* C9 (as claimed): last_login of a row changes only in a step in which a
\* loginUserService call for that user returns successfully.
C9_LastLoginOnlyOnSuccessfulLogin ==
    [][\A i \in 1..Len(users) :
          users'[i].last_login # users[i].last_login
          => \E c \in Calls :
                /\ Leaves(c, "login_update")
                /\ rows[c][1].id = users[i].id
                /\ result'[c].state = "resolved"]_vars

\* C10: a refresh token the service signed, not yet expired, is accepted by
\* verification however often it was used before; the refresh goes through
\* when the store answers and still has the user; and no step of
\* refreshTokenService writes to the store.
C10_RotationInvalidatesNothing ==
    [][\A c \in Calls :
          /\ (/\ pc[c] = "idle" /\ pc'[c] # "idle"
              /\ arg'[c].op = "refresh"
              /\ ValidRefreshSignature(arg'[c].refreshToken)
              /\ now < arg'[c].refreshToken.exp)
             => pc'[c] = "refresh_select"
          /\ (/\ Leaves(c, "refresh_select")
              /\ dbUp
              /\ \E i \in 1..Len(users) :
                    users[i].id = arg[c].refreshToken.payload.userId)
             => result'[c].state = "resolved"
          /\ (arg'[c].op = "refresh" /\ pc'[c] # pc[c]) => users' = users]_vars

\* the same refresh token answered with a new pair twice
C10_Witness ==
    \E c, d \in Calls :
        /\ c # d
        /\ arg[c].op = "refresh" /\ arg[d].op = "refresh"
        /\ arg[c].refreshToken = arg[d].refreshToken
        /\ IsResolved(c) /\ IsResolved(d)

====
